---- MODULE Spec2Model ----
(***************************************************************************)
(* A model of the pagination / retry driver of GoogleMapsReviewsScraper    *)
(* (src/src/scraper.py) together with the parts of the response parser     *)
(* (src/src/parser.py) the driver calls.                                   *)
(*                                                                         *)
(* Strings are modelled as sequences ("" is <<>>), JSON values as tagged   *)
(* records, files as records holding the serialised rows.                  *)
(***************************************************************************)
EXTENDS Integers, Sequences, FiniteSets, TLC

\* ------------------------------------------------------------------ bounds
MaxPages       == 2   \* pages the endpoint serves for one place
MaxPerPage     == 2   \* reviews on one page
MaxTarget      == 3   \* largest n_reviews tried
MaxRetries     == 3   \* largest n_retries tried
MaxFaults      == 2   \* anomalies (failed, short, unparsable, disk) per invocation
MaxRawLen      == 4   \* elements of a raw per-review array
MaxWrappers    == 2   \* wrappers in the review slot of an envelope
MaxEnvelopeLen == 3   \* elements of an envelope
MaxImpersonations == 3   \* entries of a configured impersonation list
MaxCalls       == 23  \* get_next calls in a row

\* ------------------------------------------------------------ JSON values
Null     == [t |-> "null"]
Str(s)   == [t |-> "str", s |-> s]
List(xs) == [t |-> "list", xs |-> xs]

\* A number n * 10^e (e = 0 for the small ones), and an object with `size`
\* members.
Sci(n, e) == [t |-> "num", n |-> n, e |-> e]
Num(n)    == Sci(n, 0)
Obj(size) == [t |-> "obj", size |-> size]

\* Python truthiness of a decoded JSON value.
Truthy(v) ==
    CASE v.t = "null" -> FALSE
      [] v.t = "str"  -> v.s # <<>>
      [] v.t = "list" -> v.xs # <<>>
      [] v.t = "num"  -> v.n # 0
      [] v.t = "obj"  -> v.size # 0

\* Python isinstance(v, list).
IsList(v) == v.t = "list"

\* Python isinstance(v, str) and isinstance(v, (int, float)).
IsStr(v) == v.t = "str"

IsNumber(v) == v.t = "num"

\* The decimal digits of n >= 0.
RECURSIVE DigitsOf(_)
DigitsOf(n) ==
    IF n < 10 THEN <<(<<"0", "1", "2", "3", "4", "5", "6", "7", "8", "9">>)[n + 1]>>
    ELSE DigitsOf(n \div 10) \o DigitsOf(n % 10)

\* Python str(v): a string is itself, a number its digits, anything else is
\* rendered as its repr.
Stringify(v) ==
    CASE v.t = "str" -> v.s
      [] v.t = "num" -> DigitsOf(v.n) \o [i \in 1..v.e |-> "0"]
      [] OTHER       -> <<v.t>>

\* Python None for optional integers and optional paths.
None == -1

\* ----------------------------------------------------- outcomes of a call
\* A call returns a value or raises an exception.
Ok(v)     == [exc |-> "", value |-> v]
Raises(e) == [exc |-> e, value |-> Null]

\* --------------------------------------------------------------- datetimes
\* A datetime is the proleptic ordinal of its day (0001-01-01 is day 1,
\* 9999-12-31 is day 3652059) and the second of that day; a timedelta is a
\* number of days (magnitude at most 999999999) and 0..86399 seconds.
MinOrdinal    == 1
MaxOrdinal    == 3652059
EpochOrdinal  == 719163
SecondsPerDay == 86400
MaxDeltaDays  == 999999999

DateTime(d, s) == [t |-> "datetime", d |-> d, s |-> s]

\* timedelta(days=days, seconds=seconds), normalised; OverflowError beyond
\* the representable range.
timedelta(days, seconds) ==
    LET d == days + (seconds \div SecondsPerDay)
    IN  IF d > MaxDeltaDays \/ d < -MaxDeltaDays
        THEN Raises("OverflowError")
        ELSE Ok([days |-> d, seconds |-> seconds % SecondsPerDay])

\* datetime - timedelta; OverflowError ("date value out of range") outside
\* 0001-01-01 .. 9999-12-31.
Minus(dt, delta) ==
    LET s == dt.s - delta.seconds
        d == dt.d - delta.days + (s \div SecondsPerDay)
    IN  IF d < MinOrdinal \/ d > MaxOrdinal
        THEN Raises("OverflowError")
        ELSE Ok(DateTime(d, s % SecondsPerDay))

\* str(datetime) and datetime.isoformat(): the date and the time of day
\* around a separator.
StrOfDateTime(dt) == <<" ", dt.d, dt.s>>

isoformat(dt) == <<"T", dt.d, dt.s>>

\* datetime.fromisoformat: any of the two renderings; ValueError otherwise.
fromisoformat(s) ==
    IF Len(s) = 3 /\ s[1] \in {"T", " "}
    THEN Ok(DateTime(s[2], s[3]))
    ELSE Raises("ValueError")

\* The clock: datetime.now() when extract_review_data builds retrieval_date
\* (parser.py line 117), and a later reading inside parse_relative_date
\* (time_utils.py lines 31 and 33).
Now == DateTime(738886, 43200)

LaterNow == DateTime(738886, 43201)

\* ------------------------------------------------------------- characters
Digits == {"0", "1", "2", "3", "4", "5", "6", "7", "8", "9"}

Spaces == {" "}

DigitValue(c) ==
    CASE c = "0" -> 0 [] c = "1" -> 1 [] c = "2" -> 2 [] c = "3" -> 3
      [] c = "4" -> 4 [] c = "5" -> 5 [] c = "6" -> 6 [] c = "7" -> 7
      [] c = "8" -> 8 [] c = "9" -> 9

\* int() of a string of digits.
RECURSIVE IntOf(_)
IntOf(ds) ==
    IF ds = <<>> THEN 0
    ELSE 10 * IntOf(SubSeq(ds, 1, Len(ds) - 1)) + DigitValue(ds[Len(ds)])

\* str.lower() on the letters that occur in capitals.
LowerChar(c) ==
    CASE c = "A" -> "a" [] c = "T" -> "t" [] c = "W" -> "w" [] c = "Y" -> "y"
      [] OTHER -> c

Lower(s) == [i \in 1..Len(s) |-> LowerChar(s[i])]

\* str.strip().
RECURSIVE Strip(_)
Strip(s) ==
    IF s = <<>> THEN s
    ELSE IF Head(s) \in Spaces THEN Strip(Tail(s))
    ELSE IF s[Len(s)] \in Spaces THEN Strip(SubSeq(s, 1, Len(s) - 1))
    ELSE s

\* Index of the last character of the run of characters of class cs that
\* starts at i (i - 1 when s[i] is not in cs).
RECURSIVE RunEnd(_, _, _)
RunEnd(s, i, cs) ==
    IF i <= Len(s) /\ s[i] \in cs THEN RunEnd(s, i + 1, cs) ELSE i - 1

\* The word w stands in s at position i.
LiteralAt(s, i, w) ==
    /\ i >= 1
    /\ i + Len(w) - 1 <= Len(s)
    /\ SubSeq(s, i, i + Len(w) - 1) = w

\* `w in s`.
Contains(s, w) == \E i \in 1..Len(s) : LiteralAt(s, i, w)

\* ------------------------------------------------------ parse_relative_date
Ago       == <<"a", "g", "o">>
JustNow   == <<"j", "u", "s", "t", " ", "n", "o", "w">>
NowWord   == <<"n", "o", "w">>
Today     == <<"t", "o", "d", "a", "y">>
Yesterday == <<"y", "e", "s", "t", "e", "r", "d", "a", "y">>

\* The units in the order of the pattern lists (lines 46-54 and 78-86).
Units == <<"seconds", "minutes", "hours", "days", "weeks", "months", "years">>

UnitWord(u) ==
    CASE u = "seconds" -> <<"s", "e", "c", "o", "n", "d">>
      [] u = "minutes" -> <<"m", "i", "n", "u", "t", "e">>
      [] u = "hours"   -> <<"h", "o", "u", "r">>
      [] u = "days"    -> <<"d", "a", "y">>
      [] u = "weeks"   -> <<"w", "e", "e", "k">>
      [] u = "months"  -> <<"m", "o", "n", "t", "h">>
      [] u = "years"   -> <<"y", "e", "a", "r">>

\* A month counted as 31 days.
UnitDelta_31(u, value) ==
    CASE u = "seconds" -> timedelta(value \div 86400, value % 86400)
      [] u = "minutes" -> timedelta(value \div 1440, (value % 1440) * 60)
      [] u = "hours"   -> timedelta(value \div 24, (value % 24) * 3600)
      [] u = "days"    -> timedelta(value, 0)
      [] u = "weeks"   -> timedelta(value * 7, 0)
      [] u = "months"  -> timedelta(value * 31, 0)
      [] u = "years"   -> timedelta(value * 365, 0)

\* Lines 60-75 and 79-85: the timedelta of `value` units, in normalised form.
UnitDelta(u, value) ==
    CASE u = "seconds" -> timedelta(value \div 86400, value % 86400)
      [] u = "minutes" -> timedelta(value \div 1440, (value % 1440) * 60)
      [] u = "hours"   -> timedelta(value \div 24, (value % 24) * 3600)
      [] u = "days"    -> timedelta(value, 0)
      [] u = "weeks"   -> timedelta(value * 7, 0)
      [] u = "months"  -> timedelta(value * 30, 0)
      [] u = "years"   -> timedelta(value * 365, 0)

\* A match of (\d+)\s*<word>[s]?\s+ago starts at i.
CountedMatch(s, i, w) ==
    LET e1 == RunEnd(s, i, Digits)
        e2 == RunEnd(s, e1 + 1, Spaces)
        e3 == e2 + Len(w)
        e4 == IF e3 + 1 <= Len(s) /\ s[e3 + 1] = "s" THEN e3 + 1 ELSE e3
        e5 == RunEnd(s, e4 + 1, Spaces)
    IN  /\ e1 >= i
        /\ LiteralAt(s, e2 + 1, w)
        /\ e5 >= e4 + 1
        /\ LiteralAt(s, e5 + 1, Ago)

\* A match of an?\s+<word>\s+ago starts at i.
SingleMatch(s, i, w) ==
    /\ s[i] = "a"
    /\ LET e1 == IF i + 1 <= Len(s) /\ s[i + 1] = "n" THEN i + 1 ELSE i
           e2 == RunEnd(s, e1 + 1, Spaces)
           e3 == e2 + Len(w)
           e4 == RunEnd(s, e3 + 1, Spaces)
       IN  /\ e2 >= e1 + 1
           /\ LiteralAt(s, e2 + 1, w)
           /\ e4 >= e3 + 1
           /\ LiteralAt(s, e4 + 1, Ago)

\* re.search of the counted pattern of unit u: group 1 of the leftmost
\* match, <<>> without a match.
CountedSearch(s, u) ==
    LET starts == {i \in 1..Len(s) : CountedMatch(s, i, UnitWord(u))}
    IN  IF starts = {} THEN <<>>
        ELSE LET i == CHOOSE k \in starts : \A j \in starts : k <= j
             IN  SubSeq(s, i, RunEnd(s, i, Digits))

SingleSearch(s, u) == \E i \in 1..Len(s) : SingleMatch(s, i, UnitWord(u))

\* Lines 56-75: the first unit, in list order, whose counted pattern matches.
CountedUnits(s) == {k \in 1..Len(Units) : CountedSearch(s, Units[k]) # <<>>}

SingleUnits(s) == {k \in 1..Len(Units) : SingleSearch(s, Units[k])}

First(ks) == CHOOSE k \in ks : \A j \in ks : k <= j

\* ref_dt - delta, where the construction of delta may raise as well.
Back(ref_dt, delta) ==
    IF delta.exc # "" THEN delta ELSE Minus(ref_dt, delta.value)

\* Lines 27-33: the reference instant.
ReferenceInstant(reference_date) ==
    IF Truthy(reference_date)
    THEN LET parsed == IF reference_date.t = "str"
                       THEN fromisoformat(reference_date.s)
                       ELSE Raises("TypeError")
         IN  IF parsed.exc = "" THEN parsed.value ELSE LaterNow
    ELSE LaterNow

\* parse_relative_date: Ok(datetime), Ok(Null) for None, or the exception
\* that leaves the function.
parse_relative_date(relative_date, reference_date) ==
    IF relative_date = <<>> THEN Ok(Null)
    ELSE LET ref_dt == ReferenceInstant(reference_date)
             text   == Strip(Lower(relative_date))
         IN  IF text \in {JustNow, NowWord, Today} THEN Ok(ref_dt)
             ELSE IF Contains(text, Yesterday) THEN Back(ref_dt, timedelta(1, 0))
             ELSE IF CountedUnits(text) # {}
                  THEN LET u == Units[First(CountedUnits(text))]
                       IN  Back(ref_dt, UnitDelta(u, IntOf(CountedSearch(text, u))))
             ELSE IF SingleUnits(text) # {}
                  THEN Back(ref_dt, UnitDelta(Units[First(SingleUnits(text))], 1))
             ELSE Ok(Null)

\* ---------------------------------------------------------- URL -> feature
HexDigits == {"0", "1", "2", "a", "f"}

\* Index of the last character of the run of hex digits starting at i
\* (i - 1 when s[i] is no hex digit).
RECURSIVE HexRunEnd(_, _)
HexRunEnd(s, i) ==
    IF i <= Len(s) /\ s[i] \in HexDigits THEN HexRunEnd(s, i + 1) ELSE i - 1

\* The pattern with * for + : 0[xX][0-9a-fA-F]* .
HexLiteralEnd_star(s, i) ==
    IF /\ i + 1 <= Len(s)
       /\ s[i] = "0"
       /\ s[i + 1] \in {"x", "X"}
    THEN HexRunEnd(s, i + 2)
    ELSE 0

\* End of a match of 0[xX][0-9a-fA-F]+ starting at i, 0 when there is none.
HexLiteralEnd(s, i) ==
    IF /\ i + 2 <= Len(s)
       /\ s[i] = "0"
       /\ s[i + 1] \in {"x", "X"}
       /\ HexRunEnd(s, i + 2) >= i + 2
    THEN HexRunEnd(s, i + 2)
    ELSE 0

\* End of a match of the whole pattern starting at i, 0 when there is none.
FeatureMatchEnd(s, i) ==
    LET e1 == HexLiteralEnd(s, i)
    IN  IF e1 > 0 /\ e1 + 1 <= Len(s) /\ s[e1 + 1] = ":"
        THEN HexLiteralEnd(s, e1 + 2)
        ELSE 0

\* _parse_url_to_feature_id: the leftmost match, <<>> (None) without a match.
_parse_url_to_feature_id(url) ==
    LET starts == {i \in 1..Len(url) : FeatureMatchEnd(url, i) > 0}
    IN  IF starts = {} THEN <<>>
        ELSE LET i == CHOOSE k \in starts : \A j \in starts : k <= j
             IN  SubSeq(url, i, FeatureMatchEnd(url, i))

Urls ==
    { <<"s", "0", "X", "a", "1", ":", "0", "x", "2", "f", "!">>,
      <<"0", "x", ":", "0", "x", "1">>,
      <<"0", "x", "1", ":", "1", "x", "2">> }

\* ------------------------------------------------------------------ parser
\* Lines 31-36: json.loads raises JSONDecodeError on the stripped text.
IsParseError(text) == ~text.valid

\* parse_response: strip the )]}' prefix, json.loads; None on a JSON error.
\* (json.loads("null") is None as well.)
parse_response(text) ==
    LET stripped == IF text.prefix THEN [text EXCEPT !.prefix = FALSE] ELSE text
    IN  IF stripped.prefix \/ IsParseError(stripped) THEN Null ELSE stripped.body

\* len() / indexing view of a value: a list's elements, a string's characters.
Elements(v) ==
    CASE v.t = "list" -> v.xs
      [] v.t = "str"  -> [i \in 1..Len(v.s) |-> Str(<<v.s[i]>>)]
      [] v.t = "null" -> <<>>

\* The truthiness test of line 48 left out.
extract_pagination_token_any(data) ==
    IF Len(Elements(data)) > 1
    THEN Stringify(Elements(data)[2])
    ELSE <<>>

\* extract_pagination_token
extract_pagination_token(data) ==
    IF Len(Elements(data)) > 1 /\ Truthy(Elements(data)[2])
    THEN Stringify(Elements(data)[2])
    ELSE <<>>

\* len(v) is defined (TypeError otherwise), v[i] takes an integer index
\* (KeyError on an object, whose keys are strings), and len(v).
Sized(v) == v.t \in {"list", "str", "obj"}

Subscriptable(v) == v.t \in {"list", "str"}

Length(v) == IF v.t = "obj" THEN v.size ELSE Len(Elements(v))

\* A float with the value n * 10^e.
Float(n, e) == [t |-> "float", n |-> n, e |-> e]

\* Lines 102-118: the record with every field at its default.
DefaultRecord ==
    [review_id                |-> <<>>,
     user_name                |-> <<>>,
     user_url                 |-> <<>>,
     user_reviews             |-> 0,
     rating                   |-> Float(0, 0),
     relative_date            |-> <<>>,
     text                     |-> <<>>,
     text_date                |-> Null,
     translated_text          |-> <<>>,
     likes                    |-> 0,
     response_text            |-> <<>>,
     response_relative_date   |-> <<>>,
     response_text_date       |-> Null,
     translated_response_text |-> <<>>,
     retrieval_date           |-> StrOfDateTime(Now)]

\* An exception on its way out, with the record as filled so far.
Abort(e, r) == [exc |-> e, value |-> r]

RECURSIVE Pow10(_)
Pow10(k) == IF k = 0 THEN 1 ELSE 10 * Pow10(k - 1)

\* Lines 135 and 207: int(v).
IntOutcome(v) ==
    CASE v.t = "num" -> Ok(v)
      [] v.t = "str" -> IF v.s # <<>> /\ \A i \in 1..Len(v.s) : v.s[i] \in Digits
                        THEN Ok(Num(IntOf(v.s)))
                        ELSE Raises("ValueError")
      [] OTHER       -> Raises("TypeError")

\* Lines 137-138 and 209-210: datetime.fromtimestamp(timestamp / 1000000)
\* for the microseconds n * 10^e, in UTC and whole seconds.  Beyond the year
\* 9999 (253402300799 s) it raises ValueError, beyond the range of time_t
\* (2^63 s) OverflowError.
FromMicroseconds(v) ==
    IF v.e < 6
    THEN LET secs == v.n \div Pow10(6 - v.e)
         IN  Ok(DateTime(EpochOrdinal + (secs \div SecondsPerDay), secs % SecondsPerDay))
    ELSE LET k == v.e - 6
         IN  IF k >= 10 /\ v.n > 922337203 \div Pow10(k - 10)
             THEN Raises("OverflowError")
             ELSE IF k >= 3 /\ v.n > 253402300 \div Pow10(k - 3)
             THEN Raises("ValueError")
             ELSE LET secs == v.n * Pow10(k)
                  IN  Ok(DateTime(EpochOrdinal + (secs \div SecondsPerDay),
                                  secs % SecondsPerDay))

\* Lines 135-138: the datetime of a raw timestamp, or what the conversion
\* raises.
TimestampOutcome(v) ==
    IF IntOutcome(v).exc # "" THEN IntOutcome(v)
    ELSE FromMicroseconds(IntOutcome(v).value)

\* Lines 140 and 212: except (ValueError, TypeError, OSError).
InnerCatches(exc) == exc \in {"ValueError", "TypeError", "OSError"}

\* The handler of lines 256-257 narrowed to the exceptions of line 140.
OuterCatches_narrow(exc) == exc \in {"ValueError", "TypeError", "OSError"}

\* Line 256: except Exception.
OuterCatches(exc) ==
    exc \in {"ValueError", "TypeError", "OSError", "KeyError", "IndexError",
             "OverflowError"}

\* Lines 133-141 and 205-213: a timestamp field.
TimestampField(r, field, v) ==
    IF ~Truthy(v) THEN Ok(r)
    ELSE LET o == TimestampOutcome(v)
         IN  IF o.exc = "" THEN Ok([r EXCEPT ![field] = Str(isoformat(o.value))])
             ELSE IF InnerCatches(o.exc) THEN Ok(r)
             ELSE Abort(o.exc, r)

\* Line 168: re.search(r"(\d+)", s), group 1; <<>> without a match.
FirstDigits(s) ==
    LET starts == {i \in 1..Len(s) : s[i] \in Digits}
    IN  IF starts = {} THEN <<>>
        ELSE LET i == CHOOSE k \in starts : \A j \in starts : k <= j
             IN  SubSeq(s, i, RunEnd(s, i, Digits))

\* Lines 150-170: the fields taken from user_info.
UserFields(r, user_info) ==
    IF ~IsList(user_info) THEN r
    ELSE LET u  == user_info.xs
             r1 == IF Len(u) > 0 /\ Truthy(u[1])
                   THEN [r EXCEPT !.user_name = Stringify(u[1])]
                   ELSE r
             r2 == IF Len(u) > 2 /\ IsList(u[3]) /\ Len(u[3].xs) > 0
                   THEN [r1 EXCEPT !.user_url = Stringify(u[3].xs[1])]
                   ELSE r1
         IN  IF Len(u) > 10 /\ IsList(u[11]) /\ Len(u[11].xs) > 0
                /\ FirstDigits(Stringify(u[11].xs[1])) # <<>>
             THEN [r2 EXCEPT !.user_reviews = IntOf(FirstDigits(Stringify(u[11].xs[1])))]
             ELSE r2

\* Lines 129-174: the fields taken from the metadata at index 1.
MetadataFields(r, ra) ==
    IF ~IsList(ra[2]) THEN Ok(r)
    ELSE LET metadata == ra[2].xs
             stamped  == IF Len(metadata) > 2
                         THEN TimestampField(r, "text_date", metadata[3])
                         ELSE Ok(r)
         IN  IF stamped.exc # "" THEN stamped
             ELSE LET r1 == IF /\ Len(metadata) > 4
                               /\ IsList(metadata[5])
                               /\ Len(metadata[5].xs) > 5
                            THEN UserFields(stamped.value, metadata[5].xs[6])
                            ELSE stamped.value
                  IN  IF Len(metadata) > 6 /\ Truthy(metadata[7])
                      THEN Ok([r1 EXCEPT !.relative_date = Stringify(metadata[7])])
                      ELSE Ok(r1)

\* Lines 189-198 and 219-231: the text at [[text, ...]], <<>> when it is not
\* there or no string.
ContainerText(holder) ==
    IF /\ IsList(holder) /\ Len(holder.xs) > 0
       /\ IsList(holder.xs[1]) /\ Len(holder.xs[1].xs) > 0
       /\ IsStr(holder.xs[1].xs[1])
    THEN holder.xs[1].xs[1]
    ELSE Null

\* Lines 177-198: the fields taken from the content at index 2.
ContentFields(r, ra) ==
    IF ~(Len(ra) > 2 /\ IsList(ra[3])) THEN r
    ELSE LET content == ra[3].xs
             r1 == IF /\ Len(content) > 0
                      /\ IsList(content[1])
                      /\ Len(content[1].xs) > 0
                      /\ IsNumber(content[1].xs[1])
                   THEN [r EXCEPT !.rating = Float(content[1].xs[1].n, content[1].xs[1].e)]
                   ELSE r
         IN  IF Len(content) > 15 /\ ContainerText(content[16]) # Null
             THEN [r1 EXCEPT !.text = ContainerText(content[16]).s]
             ELSE r1

\* Lines 201-231: the fields taken from the owner's response at index 3.
ResponseFields(r, ra) ==
    IF ~(Len(ra) > 3 /\ IsList(ra[4])) THEN Ok(r)
    ELSE LET response_data == ra[4].xs
             stamped == IF Len(response_data) > 1
                        THEN TimestampField(r, "response_text_date", response_data[2])
                        ELSE Ok(r)
         IN  IF stamped.exc # "" THEN stamped
             ELSE LET r1 == IF Len(response_data) > 3 /\ Truthy(response_data[4])
                            THEN [stamped.value EXCEPT
                                    !.response_relative_date = Stringify(response_data[4])]
                            ELSE stamped.value
                  IN  IF Len(response_data) > 14 /\ ContainerText(response_data[15]) # Null
                      THEN Ok([r1 EXCEPT !.response_text = ContainerText(response_data[15]).s])
                      ELSE Ok(r1)

\* Lines 235-254: a date field filled from its relative date, counted back
\* from retrieval_date, when it is still unset; whatever the resolver raises
\* is swallowed.
Fallback(r, date_field, relative_field) ==
    IF r[relative_field] # <<>> /\ r[date_field] = Null
    THEN LET parsed_date == parse_relative_date(r[relative_field], Str(r.retrieval_date))
         IN  IF parsed_date.exc = "" /\ parsed_date.value # Null
             THEN [r EXCEPT ![date_field] = Str(isoformat(parsed_date.value))]
             ELSE r
    ELSE r

\* Lines 256-259: the outer handler.
Handled(o) == IF OuterCatches(o.exc) THEN Ok(o.value) ELSE o

\* extract_review_data as a call: the record it returns, or the exception
\* that escapes it together with the record as filled so far.
ReviewDataOutcome(review_array) ==
    IF ~Truthy(review_array) THEN Ok(DefaultRecord)
    ELSE IF ~Sized(review_array) THEN Handled(Abort("TypeError", DefaultRecord))
    ELSE IF Length(review_array) < 2 THEN Ok(DefaultRecord)
    ELSE IF ~Subscriptable(review_array) THEN Handled(Abort("KeyError", DefaultRecord))
    ELSE LET ra == Elements(review_array)
             r1 == IF Truthy(ra[1])
                   THEN [DefaultRecord EXCEPT !.review_id = Stringify(ra[1])]
                   ELSE DefaultRecord
             m  == MetadataFields(r1, ra)
         IN  IF m.exc # "" THEN Handled(m)
             ELSE LET rs == ResponseFields(ContentFields(m.value, ra), ra)
                  IN  IF rs.exc # "" THEN Handled(rs)
                      ELSE Ok(Fallback(Fallback(rs.value, "text_date", "relative_date"),
                                       "response_text_date", "response_relative_date"))

\* extract_review_data: the record the caller receives.
extract_review_data(review_array) == ReviewDataOutcome(review_array).value

\* extract_reviews
RECURSIVE ExtractFrom(_)
ExtractFrom(items) ==
    IF items = <<>> THEN <<>>
    ELSE LET review_item == Head(items)
         IN  IF IsList(review_item) /\ Len(review_item.xs) > 0
             THEN <<extract_review_data(review_item.xs[1])>> \o ExtractFrom(Tail(items))
             ELSE ExtractFrom(Tail(items))

extract_reviews(data) ==
    IF Len(Elements(data)) > 2 /\ Truthy(Elements(data)[3]) /\ IsList(Elements(data)[3])
    THEN ExtractFrom(Elements(data)[3].xs)
    ELSE <<>>

\* ------------------------------------------------------------------- files
Formats == {"json", "csv"}

NoFile == [kind |-> "none", rows |-> <<>>]
Torn   == [kind |-> "torn", rows |-> <<>>]

\* The columns csv.DictWriter keeps (extrasaction="ignore").
CsvColumns ==
    {"review_id", "user_name", "user_url", "user_reviews", "rating", "relative_date",
     "text_date", "text", "response_text", "response_relative_date",
     "response_text_date", "retrieval_date"}

CsvRow(r) == [c \in CsvColumns |-> r[c]]

CsvRows(reviews) == [i \in 1..Len(reviews) |-> CsvRow(reviews[i])]

\* The open(..., "w") of lines 167 and 179 as open(..., "a").
WrittenFile_append(old, reviews, output_format) ==
    IF output_format = "json" THEN [kind |-> "json", rows |-> old.rows \o reviews]
    ELSE IF reviews # <<>> THEN [kind |-> "csv", rows |-> old.rows \o CsvRows(reviews)]
    ELSE old

\* What a completed write of `reviews` leaves at a path that held `old`:
\* json.dump always rewrites; the csv branch opens the file only when
\* reviews is non-empty.
WrittenFile(old, reviews, output_format) ==
    IF output_format = "json" THEN [kind |-> "json", rows |-> reviews]
    ELSE IF reviews # <<>> THEN [kind |-> "csv", rows |-> CsvRows(reviews)]
    ELSE old

\* Whether the write opens the file at all (only then can it fail).
OpensFile(reviews, output_format) ==
    output_format = "json" \/ reviews # <<>>

\* What a write that raises can leave behind: open() failed (untouched) or
\* the dump broke off after open(..., "w") truncated the file.
FailedWriteOutcomes(old) == {old, Torn}

\* ------------------------------------------------------------- the endpoint
\* The cursor the endpoint hands out with page k, and the page a cursor asks for.
TokenOf(k) == <<k>>

PageOfToken(tok) == IF tok = <<>> THEN 1 ELSE tok[1] + 1

\* The raw per-review array of review i on page k: [id, metadata].
RawReview(k, i) == List(<<Str(<<k, i>>), List(<<>>)>>)

\* The envelope of page k of a place with np pages of pp reviews each:
\* [null, cursor or null, [[raw], ...] or null].
PageEnvelope(k, np, pp) ==
    List(<< Null,
            IF k < np THEN Str(TokenOf(k)) ELSE Null,
            IF pp = 0 THEN Null
            ELSE List([i \in 1..pp |-> List(<<RawReview(k, i)>>)]) >>)

\* The records page k contributes.
PageRecords(k, np, pp) == extract_reviews(PageEnvelope(k, np, pp))

\* Status-200 bodies that carry no record slot.
ShortTexts ==
    { [prefix |-> TRUE,  valid |-> FALSE, body |-> Null],
      [prefix |-> TRUE,  valid |-> TRUE,  body |-> Null],
      [prefix |-> FALSE, valid |-> TRUE,  body |-> List(<<Null, Str(TokenOf(1))>>)] }

GoodTexts(tok, np, pp) ==
    IF PageOfToken(tok) \in 1..np
    THEN { [prefix |-> b, valid |-> TRUE, body |-> PageEnvelope(PageOfToken(tok), np, pp)]
           : b \in BOOLEAN }
    ELSE {}

\* ------------------------------------------------------------------- state
VARIABLES
    pc,               \* position of the invocation in scrape_reviews
    url,              \* the source URL
    feature_id,       \* _parse_url_to_feature_id(url), <<>> for None
    n_reviews,        \* target count, None when not given
    output_format,    \* "json" or "csv"
    output_file,      \* output path, <<>> when not given
    n_retries,        \* self.n_retries
    all_reviews,      \* the accumulator
    next_page_token,  \* the cursor
    retries,          \* remaining retry budget of the current page
    page,             \* page counter
    final_reviews,    \* the list scrape_reviews returns
    error,            \* what the invocation raised, "" when nothing
    tmp_dir,          \* whether ./tmp exists
    temp_files,       \* checkpoint files: path -> content
    output,           \* content of the file at the output path
    num_pages,        \* pages the endpoint serves during this invocation
    per_page,         \* reviews per page during this invocation
    faults,           \* anomalies injected during this invocation
    requests,         \* history: cursor of every page request of this invocation
    fetched,          \* history: pages whose attempt completed
    fails,            \* history: failed attempts of the current page
    disk_failed,      \* history: a checkpoint write raised in this invocation
    last_attempt,     \* history: how the latest page attempt ended: "page", "short",
                      \* "error" (the request raised), "disk" (the checkpoint write raised)
    finalized,        \* history: _save_final_output was called and returned
    parse_failed,     \* history: the answer to the current request was no valid JSON
    fn,               \* the parser or date function applied on its own, "" before
    arg,              \* its argument
    res,              \* its outcome
    tasks             \* the invocations running side by side, <<>> when none

params == <<url, feature_id, n_reviews, output_format, output_file, n_retries>>
locals == <<all_reviews, next_page_token, retries, page, final_reviews>>
disk   == <<tmp_dir, temp_files, output>>
env    == <<num_pages, per_page, faults>>
hist   == <<requests, fetched, fails, disk_failed, last_attempt, finalized,
            parse_failed>>
aux    == <<fn, arg, res, tasks>>
vars   == <<pc, params, locals, error, disk, env, hist, aux>>

\* The file name with the feature identifier left out.
TempPath_fixed(fid, fmt) == <<"tmp/gmaps_reviews_temp_">> \o <<".", fmt>>

\* Lines 245-247: temp_dir / f"gmaps_reviews_temp_{feature_id}.{output_format}".
TempPath(fid, fmt) == <<"tmp/gmaps_reviews_temp_">> \o fid \o <<".", fmt>>

temp_file == TempPath(feature_id, output_format)

ReadTemp(files, path) == IF path \in DOMAIN files THEN files[path] ELSE NoFile

WriteTemp(files, path, content) ==
    IF content = NoFile THEN files
    ELSE [q \in DOMAIN files \cup {path} |-> IF q = path THEN content ELSE files[q]]

\* Line 362 left out: the checkpoint stays.
Unlink_keep(files, path) == files

\* Line 362: temp_file.unlink().
Unlink(files, path) == [q \in DOMAIN files \ {path} |-> files[q]]

\* What earlier invocations can have left on disk: nothing at all, or the
\* checkpoints of aborted scrapes of one place in both formats (lines 292 and
\* 366-371) next to the output of a completed one (line 356).
StaleReviews == <<[DefaultRecord EXCEPT !.review_id = <<0, 1>>]>>

StalePlace == <<"0", "X", "a", "1", ":", "0", "x", "2", "f">>

EarlierDisk ==
    { [tmp_dir |-> FALSE, temp_files |-> <<>>, output |-> NoFile],
      [tmp_dir |-> TRUE,
       temp_files |-> [k \in {TempPath(StalePlace, fmt) : fmt \in Formats} |->
                          WrittenFile(NoFile, StaleReviews, k[Len(k)])],
       output |-> WrittenFile(NoFile, StaleReviews, "json")] }

\* The invocation before scrape_reviews is called.
DriverInit ==
    /\ pc = "idle"
    /\ url = <<>>
    /\ feature_id = <<>>
    /\ n_reviews = None
    /\ output_format = "json"
    /\ output_file = <<>>
    /\ n_retries = 0
    /\ all_reviews = <<>>
    /\ next_page_token = <<>>
    /\ retries = 0
    /\ page = 0
    /\ final_reviews = <<>>
    /\ error = ""
    /\ \E d \in EarlierDisk :
          /\ tmp_dir = d.tmp_dir
          /\ temp_files = d.temp_files
          /\ output = d.output
    /\ num_pages = 1
    /\ per_page = 0
    /\ faults = 0
    /\ requests = <<>>
    /\ fetched = <<>>
    /\ fails = 0
    /\ disk_failed = FALSE
    /\ last_attempt = ""
    /\ finalized = FALSE
    /\ parse_failed = FALSE

\* No parser or date function has been applied on its own.
PureIdle ==
    /\ fn = ""
    /\ arg = Null
    /\ res = Null

Init == DriverInit /\ PureIdle /\ tasks = <<>>

\* ----------------------------------------------------------------- helpers
\* The comparison of line 324 made strict.
TargetReached_strict(reviews, n) == n # None /\ n # 0 /\ Len(reviews) > n

\* Line 324: `n_reviews and len(all_reviews) >= n_reviews`.
TargetReached(reviews, n) == n # None /\ n # 0 /\ Len(reviews) >= n

\* Line 352: `all_reviews[:n_reviews] if n_reviews else all_reviews`.
Trim(reviews, n) ==
    IF n # None /\ n # 0
    THEN SubSeq(reviews, 1, IF n < Len(reviews) THEN n ELSE Len(reviews))
    ELSE reviews

\* The test of line 333 inverted.
NoMorePages_inverted(tok) == tok # <<>>

\* Line 333: `not next_page_token`.
NoMorePages(tok) == tok = <<>>

\* Line 289 as an assignment instead of an extend.
Extend_assign(acc, reviews) == reviews

\* Line 289: all_reviews.extend(reviews).
Extend(acc, reviews) == acc \o reviews

\* Line 271: `not data or len(data) < 3`.
NoRecordSlot(data) == ~Truthy(data) \/ Len(Elements(data)) < 3

\* The flush of lines 311-313 left out.
FlushesOnAbort_never(reviews, path) == FALSE

\* Line 311: the partial accumulator is flushed on abort.
FlushesOnAbort(reviews, path) == reviews # <<>> /\ path # <<>>

\* Line 303-304: the budget left after a failed attempt, and whether it is spent.
AfterFailure(r) == r - 1

Exhausted(r) == r = 0

\* The loop of line 261 as one that makes at least one attempt.
MayAttempt_once(r) == r >= 0

\* Line 261: `while retries > 0`.
MayAttempt(r) == r > 0

\* ----------------------------------------------------------------- actions
\* Lines 227-255 for one choice of arguments and of the place's pages.
Invoke(u, n, fmt, out, N, np, pp) ==
    /\ url' = u
    /\ feature_id' = _parse_url_to_feature_id(u)
    /\ n_reviews' = n
    /\ output_format' = fmt
    /\ output_file' = out
    /\ n_retries' = N
    /\ num_pages' = np
    /\ per_page' = pp
    /\ faults' = 0
    /\ all_reviews' = <<>>
    /\ next_page_token' = <<>>
    /\ page' = 0
    /\ retries' = 0
    /\ final_reviews' = <<>>
    /\ requests' = <<>>
    /\ fetched' = <<>>
    /\ fails' = 0
    /\ disk_failed' = FALSE
    /\ last_attempt' = ""
    /\ finalized' = FALSE
    /\ parse_failed' = FALSE
    /\ UNCHANGED aux
    /\ IF feature_id' = <<>>
       THEN /\ pc' = "failed"
            /\ error' = "config"
            /\ UNCHANGED tmp_dir
       ELSE /\ pc' = "page"
            /\ error' = ""
            /\ tmp_dir' = TRUE
    /\ UNCHANGED <<temp_files, output>>

\* Line 260 moved before the page loop: the budget is set once.
BeginPage_once ==
    /\ pc = "page"
    /\ retries' = IF page = 0 THEN n_retries ELSE retries
    /\ fails' = 0
    /\ pc' = "attempt"
    /\ UNCHANGED <<aux, params, all_reviews, next_page_token, page, final_reviews,
                   error, disk, env, requests, fetched, disk_failed, last_attempt,
                   finalized, parse_failed>>

\* Line 260: the retry budget of a page.
BeginPage ==
    /\ pc = "page"
    /\ retries' = n_retries
    /\ fails' = 0
    /\ pc' = "attempt"
    /\ UNCHANGED <<aux, params, all_reviews, next_page_token, page, final_reviews,
                   error, disk, env, requests, fetched, disk_failed, last_attempt,
                   finalized, parse_failed>>

\* Lines 261-266: the loop condition holds and the page request is issued.
MakeRequest ==
    /\ pc = "attempt"
    /\ MayAttempt(retries)
    /\ requests' = Append(requests, next_page_token)
    /\ parse_failed' = FALSE
    /\ pc' = "awaiting"
    /\ UNCHANGED <<aux, params, locals, error, disk, env, fetched, fails, disk_failed,
                   last_attempt, finalized>>

\* Line 261: the loop condition fails, control reaches line 323.
RetryLoopExit ==
    /\ pc = "attempt"
    /\ ~MayAttempt(retries)
    /\ pc' = "check"
    /\ UNCHANGED <<aux, params, locals, error, disk, env, hist>>

\* The sleep of line 321 left out: the retry follows at once.
OnException_nowait(flush_ok) ==
    /\ retries' = AfterFailure(retries)
    /\ fails' = fails + 1
    /\ faults' = faults + 1
    /\ UNCHANGED finalized
    /\ IF Exhausted(AfterFailure(retries))
       THEN /\ pc' = "failed"
            /\ IF FlushesOnAbort(all_reviews', output_file)
               THEN IF flush_ok
                    THEN /\ output' = WrittenFile(output, all_reviews', output_format)
                         /\ error' = "retries"
                    ELSE /\ output' \in FailedWriteOutcomes(output)
                         /\ error' = "io"
               ELSE /\ output' = output
                    /\ flush_ok
                    /\ error' = "retries"
       ELSE /\ pc' = "attempt"
            /\ flush_ok
            /\ UNCHANGED <<output, error>>

\* Lines 302-321: the except clause, entered with the accumulator as it
\* stands; flushed is the outcome of _save_final_output when it is called.
OnException(flush_ok) ==
    /\ retries' = AfterFailure(retries)
    /\ fails' = fails + 1
    /\ faults' = faults + 1
    /\ UNCHANGED finalized
    /\ IF Exhausted(AfterFailure(retries))
       THEN /\ pc' = "failed"
            /\ IF FlushesOnAbort(all_reviews', output_file)
               THEN IF flush_ok
                    THEN /\ output' = WrittenFile(output, all_reviews', output_format)
                         /\ error' = "retries"
                    ELSE /\ output' \in FailedWriteOutcomes(output)
                         /\ error' = "io"
               ELSE /\ output' = output
                    /\ flush_ok
                    /\ error' = "retries"
       ELSE /\ pc' = "retry_wait"
            /\ flush_ok
            /\ UNCHANGED <<output, error>>

\* The failed request taken for the end of the pages: the cursor is cleared.
RequestFails_rewinds(flush_ok) ==
    /\ pc = "awaiting"
    /\ faults < MaxFaults
    /\ next_page_token' = <<>>
    /\ UNCHANGED <<all_reviews, temp_files>>
    /\ last_attempt' = "error"
    /\ OnException(flush_ok)
    /\ UNCHANGED <<aux, params, page, final_reviews, tmp_dir, num_pages, per_page,
                   requests, fetched, disk_failed, parse_failed>>

\* Lines 264 and 146-147: the request raises (network error, non-200 status).
RequestFails(flush_ok) ==
    /\ pc = "awaiting"
    /\ faults < MaxFaults
    /\ UNCHANGED <<all_reviews, next_page_token, temp_files>>
    /\ last_attempt' = "error"
    /\ OnException(flush_ok)
    /\ UNCHANGED <<aux, params, page, final_reviews, tmp_dir, num_pages, per_page,
                   requests, fetched, disk_failed, parse_failed>>

\* Lines 269-279: the response has no record slot; the retry loop is left.
ReceiveShort(text) ==
    /\ pc = "awaiting"
    /\ faults < MaxFaults
    /\ text \in ShortTexts
    /\ NoRecordSlot(parse_response(text))
    /\ faults' = faults + 1
    /\ last_attempt' = "short"
    /\ parse_failed' = IsParseError(text)
    /\ pc' = "check"
    /\ UNCHANGED <<aux, params, locals, error, disk, num_pages, per_page, requests,
                   fetched, fails, disk_failed, finalized>>

\* Lines 269-300: a page is decoded, appended and checkpointed.
ReceivePage(text) ==
    /\ pc = "awaiting"
    /\ text \in GoodTexts(next_page_token, num_pages, per_page)
    /\ LET data == parse_response(text)
       IN  /\ ~NoRecordSlot(data)
           /\ next_page_token' = extract_pagination_token(data)
           /\ all_reviews' = Extend(all_reviews, extract_reviews(data))
    /\ temp_files' = WriteTemp(temp_files, temp_file,
                        WrittenFile(ReadTemp(temp_files, temp_file), all_reviews', output_format))
    /\ fetched' = Append(fetched, PageOfToken(next_page_token))
    /\ last_attempt' = "page"
    /\ pc' = "check"
    /\ UNCHANGED <<aux, params, retries, page, final_reviews, error, tmp_dir, output,
                   env, requests, fails, disk_failed, finalized, parse_failed>>

\* Lines 269-292 then 302-321: the page is decoded and appended, but the
\* checkpoint write raises.
ReceivePageDiskFails(text, flush_ok) ==
    /\ pc = "awaiting"
    /\ faults < MaxFaults
    /\ text \in GoodTexts(next_page_token, num_pages, per_page)
    /\ LET data == parse_response(text)
       IN  /\ ~NoRecordSlot(data)
           /\ next_page_token' = extract_pagination_token(data)
           /\ all_reviews' = Extend(all_reviews, extract_reviews(data))
    /\ OpensFile(all_reviews', output_format)
    /\ \E content \in FailedWriteOutcomes(ReadTemp(temp_files, temp_file)) :
          temp_files' = WriteTemp(temp_files, temp_file, content)
    /\ disk_failed' = TRUE
    /\ last_attempt' = "disk"
    /\ OnException(flush_ok)
    /\ UNCHANGED <<aux, params, page, final_reviews, tmp_dir, num_pages, per_page,
                   requests, fetched, parse_failed>>

\* Line 321: the inter-retry wait is over.
RetryWait ==
    /\ pc = "retry_wait"
    /\ pc' = "attempt"
    /\ UNCHANGED <<aux, params, locals, error, disk, env, hist>>

\* Lines 323-339: the termination conditions after the retry loop.
Check ==
    /\ pc = "check"
    /\ pc' = IF TargetReached(all_reviews, n_reviews) THEN "finalize"
             ELSE IF NoMorePages(next_page_token) THEN "finalize"
             ELSE "delay"
    /\ UNCHANGED <<aux, params, locals, error, disk, env, hist>>

\* Lines 342-343: the inter-request delay is over.
Delay ==
    /\ pc = "delay"
    /\ page' = page + 1
    /\ pc' = "page"
    /\ UNCHANGED <<aux, params, all_reviews, next_page_token, retries, final_reviews,
                   error, disk, env, hist>>

\* Lines 351-358: trim and write the final output.
Finalize ==
    /\ pc = "finalize"
    /\ final_reviews' = Trim(all_reviews, n_reviews)
    /\ IF output_file # <<>>
       THEN output' = WrittenFile(output, final_reviews', output_format)
       ELSE output' = output
    /\ finalized' = (output_file # <<>>)
    /\ pc' = "cleanup"
    /\ UNCHANGED <<aux, params, all_reviews, next_page_token, retries, page, error,
                   tmp_dir, temp_files, env, requests, fetched, fails, disk_failed,
                   last_attempt, parse_failed>>

\* Lines 356 and 366-371: _save_final_output raises.
FinalizeFails ==
    /\ pc = "finalize"
    /\ faults < MaxFaults
    /\ output_file # <<>>
    /\ final_reviews' = Trim(all_reviews, n_reviews)
    /\ OpensFile(final_reviews', output_format)
    /\ output' \in FailedWriteOutcomes(output)
    /\ faults' = faults + 1
    /\ pc' = "failed"
    /\ error' = "io"
    /\ UNCHANGED <<aux, params, all_reviews, next_page_token, retries, page,
                   tmp_dir, temp_files, num_pages, per_page, hist>>

\* Lines 360-364: remove the checkpoint and return.
Cleanup ==
    /\ pc = "cleanup"
    /\ temp_files' = IF temp_file \in DOMAIN temp_files
                     THEN Unlink(temp_files, temp_file)
                     ELSE temp_files
    /\ pc' = "done"
    /\ UNCHANGED <<aux, params, locals, error, tmp_dir, output, env, hist>>

\* Lines 264, 321 and 342: the awaits at which the invocation is suspended.
Suspended == {"awaiting", "retry_wait", "delay"}

\* Cancellation with a cleanup handler that removes the checkpoint.
Cancel_unlinks ==
    /\ pc \in Suspended
    /\ pc' = "cancelled"
    /\ error' = "cancelled"
    /\ temp_files' = Unlink(temp_files, temp_file)
    /\ UNCHANGED <<aux, params, locals, tmp_dir, output, env, hist>>

\* The caller cancels the task: asyncio.CancelledError is raised at the await
\* where the invocation is suspended.  It is a BaseException, so neither
\* `except Exception` (lines 302 and 366) runs and it reaches the caller.
Cancel ==
    /\ pc \in Suspended
    /\ pc' = "cancelled"
    /\ error' = "cancelled"
    /\ UNCHANGED <<aux, params, locals, disk, env, hist>>

Targets == {None} \cup (0..MaxTarget)

OutputFiles == {<<>>, <<"o">>}

\* scrape_reviews is called.
Start ==
    /\ pc = "idle"
    /\ \E u \in Urls, n \in Targets, fmt \in Formats, out \in OutputFiles,
          N \in -1..MaxRetries, np \in 1..MaxPages, pp \in 0..MaxPerPage :
          Invoke(u, n, fmt, out, N, np, pp)

Next ==
    \/ Start
    \/ BeginPage
    \/ MakeRequest
    \/ RetryLoopExit
    \/ \E flush_ok \in BOOLEAN : RequestFails(flush_ok)
    \/ \E text \in ShortTexts : ReceiveShort(text)
    \/ \E text \in GoodTexts(next_page_token, num_pages, per_page) : ReceivePage(text)
    \/ \E text \in GoodTexts(next_page_token, num_pages, per_page), flush_ok \in BOOLEAN :
          ReceivePageDiskFails(text, flush_ok)
    \/ RetryWait
    \/ Check
    \/ Delay
    \/ Finalize
    \/ FinalizeFails
    \/ Cleanup
    \/ Cancel

Spec == Init /\ [][Next]_vars

\* ------------------------------------------------------ unbounded answers
\* The invocation against an endpoint that may answer without a record slot
\* any number of times.  To keep the states finite the history of requests
\* holds the latest request only and the page counter, which the code never
\* reads, stops counting at MaxPages; outputs and write failures are left out.

\* scrape_reviews is called without an output path.
LiveStart ==
    /\ pc = "idle"
    /\ \E u \in Urls, n \in Targets, N \in 0..MaxRetries, np \in 1..MaxPages,
          pp \in 0..MaxPerPage :
          Invoke(u, n, "json", <<>>, N, np, pp)

\* Lines 261-266: the page request is issued.
IssueRequest ==
    /\ pc = "attempt"
    /\ MayAttempt(retries)
    /\ requests' = <<next_page_token>>
    /\ parse_failed' = FALSE
    /\ pc' = "awaiting"
    /\ UNCHANGED <<aux, params, locals, error, disk, env, fetched, fails, disk_failed,
                   last_attempt, finalized>>

\* Lines 269-279: one more response without a record slot.
ReceiveShortAgain(text) ==
    /\ pc = "awaiting"
    /\ text \in ShortTexts
    /\ NoRecordSlot(parse_response(text))
    /\ last_attempt' = "short"
    /\ parse_failed' = IsParseError(text)
    /\ pc' = "check"
    /\ UNCHANGED <<aux, params, locals, error, disk, env, requests, fetched, fails,
                   disk_failed, finalized>>

\* Lines 342-343: the inter-request delay is over.
NextPage ==
    /\ pc = "delay"
    /\ page' = IF page < MaxPages THEN page + 1 ELSE page
    /\ pc' = "page"
    /\ UNCHANGED <<aux, params, all_reviews, next_page_token, retries, final_reviews,
                   error, disk, env, hist>>

LiveNext ==
    \/ LiveStart
    \/ BeginPage
    \/ IssueRequest
    \/ RetryLoopExit
    \/ RequestFails(TRUE)
    \/ \E text \in ShortTexts : ReceiveShortAgain(text)
    \/ \E text \in GoodTexts(next_page_token, num_pages, per_page) : ReceivePage(text)
    \/ RetryWait
    \/ Check
    \/ NextPage
    \/ Finalize
    \/ Cleanup

\* Every request is answered and every step the invocation can take is
\* taken: the event loop runs the coroutine whenever it is ready.
LiveSpec == Init /\ [][LiveNext]_vars /\ WF_vars(LiveNext)

\* ------------------------------------------------ invocations side by side
\* Two invocations of scrape_reviews run concurrently (tasks of one event
\* loop, or threads): each has its own arguments and locals, they share the
\* tmp directory.  Every file operation is a step of its own.
Tasks == {1, 2}

ConcurrentUrls ==
    { <<"s", "0", "X", "a", "1", ":", "0", "x", "2", "f", "!">>,
      <<"0", "x", "1", ":", "0", "x", "2">> }

\* Lines 227-241: the arguments and locals of an invocation about to start.
TaskStart(u, fmt) ==
    [url |-> u, feature_id |-> _parse_url_to_feature_id(u), output_format |-> fmt,
     pc |-> "idle", all_reviews |-> <<>>, next_page_token |-> <<>>]

\* Line 247: the checkpoint path of an invocation.
TaskFile(t) == TempPath(t.feature_id, t.output_format)

ConcurrentInit ==
    /\ DriverInit
    /\ PureIdle
    /\ tasks \in [Tasks -> {TaskStart(u, fmt) : u \in ConcurrentUrls, fmt \in Formats}]

\* What a step of a task leaves alone.
TaskFrame == UNCHANGED <<pc, params, locals, error, output, env, hist, fn, arg, res>>

\* Lines 227-264: mkdir and the first page request.
TaskBegin(i) ==
    /\ tasks[i].pc = "idle"
    /\ tmp_dir' = TRUE
    /\ tasks' = [tasks EXCEPT ![i].pc = "awaiting"]
    /\ UNCHANGED temp_files
    /\ TaskFrame

\* Lines 269-339: a page of the task's place (MaxPages pages of one review)
\* is decoded, appended and checkpointed; the loop goes on or is left.
TaskReceivePage(i) ==
    /\ tasks[i].pc = "awaiting"
    /\ LET t    == tasks[i]
           data == PageEnvelope(PageOfToken(t.next_page_token), MaxPages, 1)
           acc  == Extend(t.all_reviews, extract_reviews(data))
           tok  == extract_pagination_token(data)
       IN  /\ temp_files' = WriteTemp(temp_files, TaskFile(t),
                               WrittenFile(ReadTemp(temp_files, TaskFile(t)), acc,
                                           t.output_format))
           /\ tasks' = [tasks EXCEPT ![i] =
                          [t EXCEPT !.all_reviews = acc,
                                    !.next_page_token = tok,
                                    !.pc = IF NoMorePages(tok) THEN "exists" ELSE "delay"]]
    /\ UNCHANGED tmp_dir
    /\ TaskFrame

\* Lines 302-319 with a budget of one attempt: the request raises, the
\* invocation aborts and leaves its checkpoint.
TaskRequestFails(i) ==
    /\ tasks[i].pc = "awaiting"
    /\ tasks' = [tasks EXCEPT ![i].pc = "failed"]
    /\ UNCHANGED <<tmp_dir, temp_files>>
    /\ TaskFrame

\* Lines 342-343 and 264: the delay is over, the next request is issued.
TaskDelay(i) ==
    /\ tasks[i].pc = "delay"
    /\ tasks' = [tasks EXCEPT ![i].pc = "awaiting"]
    /\ UNCHANGED <<tmp_dir, temp_files>>
    /\ TaskFrame

\* Line 361: temp_file.exists().
TaskExists(i) ==
    /\ tasks[i].pc = "exists"
    /\ tasks' = [tasks EXCEPT ![i].pc =
                    IF TaskFile(tasks[i]) \in DOMAIN temp_files THEN "unlink" ELSE "done"]
    /\ UNCHANGED <<tmp_dir, temp_files>>
    /\ TaskFrame

\* Line 362: temp_file.unlink(); FileNotFoundError when the file went away
\* since line 361.
TaskUnlink(i) ==
    /\ tasks[i].pc = "unlink"
    /\ IF TaskFile(tasks[i]) \in DOMAIN temp_files
       THEN /\ temp_files' = Unlink(temp_files, TaskFile(tasks[i]))
            /\ tasks' = [tasks EXCEPT ![i].pc = "done"]
       ELSE /\ temp_files' = temp_files
            /\ tasks' = [tasks EXCEPT ![i].pc = "failed"]
    /\ UNCHANGED tmp_dir
    /\ TaskFrame

ConcurrentNext ==
    \E i \in Tasks :
        \/ TaskBegin(i)
        \/ TaskReceivePage(i)
        \/ TaskRequestFails(i)
        \/ TaskDelay(i)
        \/ TaskExists(i)
        \/ TaskUnlink(i)

ConcurrentSpec == ConcurrentInit /\ [][ConcurrentNext]_vars

\* ------------------------------------------------- functions on their own
\* The parser's functions and parse_relative_date applied to one argument
\* each: the argument is drawn at the start, the step applies the function.

\* The reference_date arguments tried, each with the instant the function is
\* to count back from: none given and a malformed one (the clock), and the
\* two renderings of a datetime.
ReferenceCases ==
    { [given |-> Null,                      instant |-> LaterNow],
      [given |-> Str(<<"x">>),              instant |-> LaterNow],
      [given |-> Str(StrOfDateTime(DateTime(738000, 100))),
                                            instant |-> DateTime(738000, 100)],
      [given |-> Str(isoformat(DateTime(400, 3600))),
                                            instant |-> DateTime(400, 3600)] }

\* The texts tried: every combination of a lead, a quantity or article, a
\* gap, a unit word, a plural s and a tail, ...
FormTexts ==
    { l \o q \o g \o u \o p \o t :
        l \in {<<>>, <<" ">>, <<"x", " ">>},
        q \in { <<>>, <<"2">>, <<"1", "2">>, <<"3", "0", "0", "0">>,
                <<"3", "0", "0", "0", "0", "0", "0">>, <<"a">>, <<"a", "n">>, <<"A">> },
        g \in {<<>>, <<" ">>},
        u \in {UnitWord(Units[k]) : k \in 1..Len(Units)} \cup {<<>>, <<"x">>},
        p \in {<<>>, <<"s">>},
        t \in {<<" ">> \o Ago, Ago, <<>>, <<" ", " ">> \o Ago \o <<" ">>} }

\* The arguments tried: those texts and texts without a quantity, with
\* every reference.
DateInputs ==
    [text : FormTexts \cup
            { <<>>, JustNow, NowWord, Today, <<"T", "o", "d", "a", "y", " ">>, Yesterday,
              <<"Y">> \o Tail(Yesterday), NowWord \o <<" ", "x">>,
              <<"2", " ">> \o UnitWord("days") \o <<" ">> \o Ago \o <<" ">> \o Yesterday },
     reference : {c.given : c \in ReferenceCases}]

\* A list of n elements, null except at the given 0-based positions.
Sparse(n, at) == List([i \in 1..n |-> IF (i - 1) \in DOMAIN at THEN at[i - 1] ELSE Null])

\* The metadata values tried: no array, an empty one, and every combination
\* of a raw timestamp (absent, zero, a real one in microseconds, digits in a
\* string, no number, a list, one beyond the year 9999, one beyond time_t),
\* a user_info and a relative date.
Metadatas ==
    { Null, Str(<<"m">>), List(<<>>) } \cup
    { Sparse(7, (2 :> ts) @@ (4 :> Sparse(6, 5 :> u)) @@ (6 :> rel)) :
        ts \in { Null, Num(0), Sci(1700000000, 6), Str(<<"1", "2">>), Str(<<"x">>),
                 List(<<Null>>), Sci(1, 18), Sci(1, 25) },
        u \in { Null,
                Sparse(11, (0 :> Str(<<"U">>)) @@ (2 :> List(<<Str(<<"u">>)>>))
                             @@ (10 :> List(<<Str(<<"1", "2", " ", "r">>)>>))) },
        rel \in { Null, Str(<<"x">>),
                  Str(<<"2", " ", "w", "e", "e", "k", "s", " ", "a", "g", "o">>),
                  Str(<<"3", "0", "0", "0", " ", "y", "e", "a", "r", "s", " ", "a", "g", "o">>) } }

\* The raw per-review arrays tried: every combination of an identifier, a
\* metadata value, a content and a response, cut off after 0..MaxRawLen
\* elements and filled up with null, and values that are no array at all.
RawInputs ==
    {Null, Str(<<"a", "b">>), Num(0), Num(5), Obj(0), Obj(2)} \cup
    { List([i \in 1..n |-> IF i <= 4 THEN <<id, m, c, r>>[i] ELSE Null]) :
        n \in 0..MaxRawLen,
        id \in {Null, Str(<<"r">>), Num(7)},
        m \in Metadatas,
        c \in { Null,
                Sparse(16, (0 :> List(<<Num(5)>>))
                             @@ (15 :> List(<<List(<<Str(<<"t">>)>>)>>))),
                Sparse(1, 0 :> List(<<Str(<<"5">>)>>)),
                Sparse(16, 15 :> List(<<List(<<Num(1)>>)>>)) },
        r \in { Null } \cup
              { Sparse(15, (1 :> ts) @@ (3 :> rel)
                             @@ (14 :> List(<<List(<<Str(<<"r">>)>>)>>))) :
                  ts \in {Null, Sci(1700000000, 6), Sci(1, 18), Sci(1, 25)},
                  rel \in { Null, Str(<<"x">>),
                            Str(<<"a", " ", "d", "a", "y", " ", "a", "g", "o">>) } } }

\* The wrappers tried in the review slot of an envelope.
Wrappers ==
    { Null, Str(<<"w">>), List(<<>>), List(<<Null>>), List(<<Str(<<"x">>)>>),
      List(<<List(<<Str(<<"r">>), Sparse(7, 6 :> Str(<<"x">>))>>)>>),
      List(<<List(<<Str(<<"q">>), Null, Sparse(1, 0 :> List(<<Num(4)>>))>>), Null>>) }

\* The envelopes tried: arrays of 0..MaxEnvelopeLen elements with a cursor
\* at index 1 and a review slot of up to MaxWrappers wrappers at index 2.
Envelopes ==
    { List([i \in 1..n |-> IF i = 2 THEN c ELSE IF i = 3 THEN s ELSE Null]) :
        n \in 0..MaxEnvelopeLen,
        c \in { Null, Str(<<>>), Str(<<"c", "1">>), Num(0), Num(7), List(<<>>),
                List(<<Null>>) },
        s \in { Null, Str(<<"t">>) } \cup
              { List(ws) : ws \in UNION {[1..k -> Wrappers] : k \in 0..MaxWrappers} } }

PureInit ==
    /\ DriverInit
    /\ tmp_dir = FALSE
    /\ tasks = <<>>
    /\ res = Null
    /\ \/ fn = "parse_relative_date" /\ arg \in DateInputs
       \/ fn = "extract_review_data" /\ arg \in RawInputs
       \/ fn \in {"extract_pagination_token", "extract_reviews"} /\ arg \in Envelopes
       \/ /\ fn = "_save_to_temp"
          /\ arg \in { [reviews |-> rs, output_format |-> fmt, file |-> old] :
                         rs \in {<<>>, StaleReviews, PageRecords(1, 1, 2)},
                         fmt \in Formats,
                         old \in {NoFile, Torn} \cup
                                 {WrittenFile(NoFile, StaleReviews, f) : f \in Formats} }

\* What the application of a function leaves alone.
PureFrame == UNCHANGED <<pc, params, locals, error, disk, env, hist, fn, arg, tasks>>

ApplyRelativeDate ==
    /\ fn = "parse_relative_date"
    /\ res = Null
    /\ res' = parse_relative_date(arg.text, arg.reference)
    /\ PureFrame

ApplyReviewData ==
    /\ fn = "extract_review_data"
    /\ res = Null
    /\ res' = ReviewDataOutcome(arg)
    /\ PureFrame

ApplyPaginationToken ==
    /\ fn = "extract_pagination_token"
    /\ res = Null
    /\ res' = Ok(extract_pagination_token(arg))
    /\ PureFrame

ApplyReviews ==
    /\ fn = "extract_reviews"
    /\ res = Null
    /\ res' = Ok(extract_reviews(arg))
    /\ PureFrame

\* _save_to_temp(reviews, temp_file, output_format) called on the file as it
\* stands, for a first and for a second time.
ApplySaveToTemp ==
    /\ fn = "_save_to_temp"
    /\ IF res = Null THEN TRUE ELSE res.calls < 2
    /\ res' = [calls |-> IF res = Null THEN 1 ELSE res.calls + 1,
               file  |-> WrittenFile(IF res = Null THEN arg.file ELSE res.file,
                                     arg.reviews, arg.output_format)]
    /\ PureFrame

PureNext ==
    \/ ApplySaveToTemp
    \/ ApplyRelativeDate
    \/ ApplyReviewData
    \/ ApplyPaginationToken
    \/ ApplyReviews

PureSpec == PureInit /\ [][PureNext]_vars

\* ------------------------------------------------------- BrowserEmulator
\* A BrowserEmulator on its own: arg is the constructor's argument, fn the
\* method called last, and res the object (impersonations, _index) with the
\* value the last call returned and the number of get_next calls since the
\* index was last set to 0.

\* Lines 16-43: the default list.
IMPERSONATIONS ==
    << "chrome136", "chrome136", "chrome133a", "chrome131", "chrome124", "chrome123",
       "chrome120", "chrome119", "chrome116", "chrome110", "chrome107", "chrome104",
       "chrome101", "chrome100", "chrome99", "chrome131_android", "chrome99_android",
       "edge101", "edge99", "safari15_5", "safari15_3" >>

\* Lines 44-52: BrowserEmulator(impersonations) for no list, an empty list
\* and lists of 1..MaxImpersonations names.
EmulatorInit ==
    /\ DriverInit
    /\ tmp_dir = FALSE
    /\ tasks = <<>>
    /\ fn = "__init__"
    /\ arg \in {Null} \cup
               {List(xs) : xs \in UNION {[1..k -> {"chrome99", "edge99"}] :
                                           k \in 0..MaxImpersonations}}
    /\ res = [impersonations |-> IF Truthy(arg) THEN arg.xs ELSE IMPERSONATIONS,
              _index |-> 0, returned |-> Null, since |-> 0]

\* Line 61: random.choice(self.impersonations).
get_random ==
    /\ fn # ""
    /\ fn' = "get_random"
    /\ \E i \in 1..Len(res.impersonations) :
          res' = [res EXCEPT !.returned = res.impersonations[i]]
    /\ UNCHANGED <<pc, params, locals, error, disk, env, hist, arg, tasks>>

\* The modulo of line 71 left out.
get_next_nowrap ==
    /\ fn # ""
    /\ res.since < MaxCalls
    /\ fn' = "get_next"
    /\ res' = [res EXCEPT !.returned = res.impersonations[res._index + 1],
                          !._index = res._index + 1,
                          !.since = res.since + 1]
    /\ UNCHANGED <<pc, params, locals, error, disk, env, hist, arg, tasks>>

\* Lines 70-72: the entry at the index, and the index moved on.
get_next ==
    /\ fn # ""
    /\ res.since < MaxCalls
    /\ fn' = "get_next"
    /\ res' = [res EXCEPT !.returned = res.impersonations[res._index + 1],
                          !._index = (res._index + 1) % Len(res.impersonations),
                          !.since = res.since + 1]
    /\ UNCHANGED <<pc, params, locals, error, disk, env, hist, arg, tasks>>

\* Line 76.
reset ==
    /\ fn # ""
    /\ fn' = "reset"
    /\ res' = [res EXCEPT !._index = 0, !.since = 0]
    /\ UNCHANGED <<pc, params, locals, error, disk, env, hist, arg, tasks>>

EmulatorNext ==
    \/ get_random
    \/ get_next
    \/ reset

EmulatorSpec == EmulatorInit /\ [][EmulatorNext]_vars

\* ------------------------------------------------------------------ claims
\* The invocation has left the page loop or is about to decide so.
Stopping == pc \in {"check", "finalize", "cleanup", "done", "failed"}

\* The target count is given and the accumulator has reached it.
TargetMet == n_reviews >= 1 /\ Len(all_reviews) >= n_reviews

\* C1: with a target n >= 1, once a successful page has brought the
\* accumulator to at least n records, no further page request is issued,
\* the invocation goes on to return (only a failing write of the output
\* file can still make it raise), and it returns exactly the first n
\* accumulated records in arrival order.
C1_TargetStops ==
    /\ [][(last_attempt = "page" /\ Stopping /\ TargetMet)
            => /\ requests' = requests
               /\ pc = "check" => pc' = "finalize"
               /\ pc' = "failed" => (pc = "finalize" /\ error' = "io")]_vars
    /\ [](pc = "done" /\ last_attempt = "page" /\ TargetMet
            => final_reviews = SubSeq(all_reviews, 1, n_reviews))

\* Target 3 with 2 records per page on a place with 2 pages: 2 requests,
\* 4 records accumulated, the first 3 returned.
C1_Witness ==
    /\ pc = "done"
    /\ n_reviews = 3 /\ per_page = 2 /\ num_pages = 2
    /\ Len(requests) = 2
    /\ Len(all_reviews) = 4
    /\ Len(final_reviews) = 3
    /\ faults = 0

\* C2: when a completed page attempt returned an empty cursor and the target
\* is not met or not set, no further page request is issued, the invocation
\* goes on to return (only a failing write of the output file can still make
\* it raise) and it returns every accumulated record.
C2_EmptyCursorStops ==
    /\ [][(last_attempt = "page" /\ Stopping /\ next_page_token = <<>> /\ ~TargetMet)
            => /\ requests' = requests
               /\ pc = "check" => pc' = "finalize"
               /\ pc' = "failed" => (pc = "finalize" /\ error' = "io")]_vars
    /\ [](pc = "done" /\ last_attempt = "page" /\ next_page_token = <<>> /\ ~TargetMet
            => final_reviews = all_reviews)

\* Both pages of a place fetched when no target is set.
C2_Witness ==
    /\ pc = "done"
    /\ last_attempt = "page"
    /\ next_page_token = <<>>
    /\ num_pages = 2 /\ per_page = 2 /\ n_reviews = None
    /\ Len(requests) = 2
    /\ Len(final_reviews) = 4

\* C3: a response without a record slot ends the scrape on any page and with
\* any cursor: after it the invocation only finalizes, it never waits for or
\* issues another page request.
C3_ShortEnvelopeStops == last_attempt = "short" => Stopping

\* The records the endpoint serves on page k, written down independently of
\* the parser.
ServedRecords(k) ==
    [i \in 1..per_page |->
        [review_id |-> <<k, i>>, user_name |-> <<>>, user_url |-> <<>>,
         user_reviews |-> 0, rating |-> Float(0, 0), relative_date |-> <<>>,
         text |-> <<>>, text_date |-> Null, translated_text |-> <<>>, likes |-> 0,
         response_text |-> <<>>, response_relative_date |-> <<>>,
         response_text_date |-> Null, translated_response_text |-> <<>>,
         retrieval_date |-> <<" ", Now.d, Now.s>>]]

RECURSIVE ServedUpTo(_)
ServedUpTo(k) == IF k = 0 THEN <<>> ELSE ServedUpTo(k - 1) \o ServedRecords(k)

\* C4: as long as only requests fail (transport errors, non-200 statuses,
\* responses without a record slot) the accumulator is the concatenation, in
\* page order, of the records of pages 1..k, each once, where k is the number
\* of completed page attempts.
C4_NoDuplicateNoLoss ==
    ~disk_failed =>
        /\ fetched = [k \in 1..Len(fetched) |-> k]
        /\ all_reviews = ServedUpTo(Len(fetched))

\* Page 2 fails twice and succeeds on the third attempt: 4 requests, the
\* last three with the cursor of page 1, and both pages' records once.
C4_Witness ==
    /\ pc = "check"
    /\ ~disk_failed
    /\ n_retries = 3
    /\ per_page = 2
    /\ requests = << <<>>, TokenOf(1), TokenOf(1), TokenOf(1) >>
    /\ fetched = <<1, 2>>
    /\ fails = 2
    /\ Len(all_reviews) = 4

\* C5: an invocation aborts for exhausted retries only after the first failed
\* attempt of a page and n_retries further failed attempts of it.
C5_RetriesAfterFirstFailure ==
    (pc = "failed" /\ error = "retries") => fails = n_retries + 1

\* The checkpoint file of the invocation holds exactly the accumulator.
CheckpointHoldsAccumulator ==
    LET f == ReadTemp(temp_files, temp_file)
    IN  \/ /\ f.kind = output_format
           /\ f.rows = IF output_format = "json" THEN all_reviews
                       ELSE [i \in 1..Len(all_reviews) |->
                               [c \in CsvColumns |-> all_reviews[i][c]]]
        \/ /\ f = NoFile
           /\ all_reviews = <<>>

\* C6: after every completed page attempt, in both formats, the checkpoint
\* file holds exactly the accumulator (no file at all passing for an empty one).
C6_CheckpointIsAccumulator ==
    (pc = "check" /\ last_attempt = "page") => CheckpointHoldsAccumulator

\* What a write of `reviews` in the invocation's format puts in a file.
Serialised(reviews) ==
    [kind |-> output_format,
     rows |-> IF output_format = "json" THEN reviews
              ELSE [i \in 1..Len(reviews) |-> [c \in CsvColumns |-> reviews[i][c]]]]

\* C7 as claimed: whenever the invocation aborts for exhausted retries and an
\* output path is configured, the accumulator, whatever its size, has been
\* written to the output path.
C7_AbortFlushesAlways ==
    (pc = "failed" /\ error = "retries" /\ output_file # <<>>)
        => output = Serialised(all_reviews)

\* C7 amended: whenever the invocation aborts for exhausted retries, an output
\* path is configured and the accumulator is not empty, the accumulator has
\* been written to the output path (a flush that itself raises surfaces its
\* own error instead).
C7_AbortFlushesNonEmpty ==
    (pc = "failed" /\ error = "retries" /\ output_file # <<>> /\ all_reviews # <<>>)
        => output = Serialised(all_reviews)

\* Page 1 was fetched, page 2 exhausted the retries, the output file holds
\* page 1's records.
C7_Witness ==
    /\ pc = "failed"
    /\ error = "retries"
    /\ output_file # <<>>
    /\ fetched = <<1>>
    /\ Len(all_reviews) = 2
    /\ Len(requests) > 1
    /\ output = Serialised(all_reviews)

\* C8: every invocation that aborts for exhausted retries leaves a checkpoint
\* file on disk whose content is the accumulator at the time of the failure.
C8_AbortLeavesCheckpoint ==
    (pc = "failed" /\ error = "retries")
        => ReadTemp(temp_files, temp_file) = Serialised(all_reviews)

IsHexLiteral(u, a, b) ==
    /\ 1 <= a /\ b <= Len(u) /\ a + 2 <= b
    /\ u[a] = "0"
    /\ u[a + 1] \in {"x", "X"}
    /\ \A k \in (a + 2)..b : u[k] \in {"0", "1", "2", "a", "f"}

\* u contains a feature identifier 0x<hex>:0x<hex>.
ContainsFeatureId(u) ==
    \E a \in 1..Len(u), m \in 1..Len(u), b \in 1..Len(u) :
        /\ IsHexLiteral(u, a, m - 1)
        /\ u[m] = ":"
        /\ IsHexLiteral(u, m + 1, b)

\* The URLs tried that hold no feature identifier.
UrlsWithoutFeatureId == {u \in Urls : ~ContainsFeatureId(u)}

\* C10: a call whose URL holds no feature identifier fails at once with a
\* configuration error: no request, no retry, and the checkpoint directory,
\* the checkpoint files and the output file stay as they were.
C10_NoFeatureIdFailsFast ==
    /\ []((pc # "idle" /\ url \in UrlsWithoutFeatureId)
            => /\ pc = "failed" /\ error = "config"
               /\ requests = <<>> /\ fails = 0)
    /\ [][url' \in UrlsWithoutFeatureId => disk' = disk]_vars

\* A URL with an empty first hex run was rejected.
C10_Witness ==
    /\ pc = "failed"
    /\ error = "config"
    /\ url = <<"0", "x", ":", "0", "x", "1">>
    /\ requests = <<>>

\* C11: an answer that is no valid JSON counts as a failed attempt of the
\* page: the retry budget is charged and the invocation waits to retry the
\* same cursor or aborts for exhausted retries; it never goes on to the
\* termination checks as after a page without results.
C11_ParseErrorRetried ==
    parse_failed => /\ pc \in {"retry_wait", "failed", "cancelled"}
                    /\ last_attempt = "error"
                    /\ fails >= 1

\* C12: a cancellation strikes only at a suspension point and changes
\* neither the request history, nor the locals, nor anything on disk; a
\* cancelled invocation takes no further step; and when a page was completed
\* and its checkpoint write took place (no write raised, and the csv branch
\* had rows to write) the checkpoint left behind holds the accumulator.
C12_CancelAborts ==
    /\ [][(pc' = "cancelled" /\ pc # "cancelled")
            => /\ pc \in Suspended
               /\ requests' = requests
               /\ locals' = locals
               /\ disk' = disk]_vars
    /\ [][pc # "cancelled"]_vars
    /\ [](( /\ pc = "cancelled"
            /\ fetched # <<>>
            /\ ~disk_failed
            /\ OpensFile(all_reviews, output_format) )
            => ReadTemp(temp_files, temp_file) = Serialised(all_reviews))

\* Cancelled while waiting for the answer to the request for page 2: the
\* checkpoint of page 1 is on disk.
C12_Witness ==
    /\ pc = "cancelled"
    /\ fetched = <<1>>
    /\ Len(requests) = 2
    /\ last_attempt = "page"
    /\ all_reviews # <<>>
    /\ ReadTemp(temp_files, temp_file) = Serialised(all_reviews)

\* Two concurrent invocations differ in the feature identifier or the format.
DistinctCheckpoints(i, j) ==
    \/ tasks[i].feature_id # tasks[j].feature_id
    \/ tasks[i].output_format # tasks[j].output_format

\* C13: for two concurrent invocations whose feature identifiers or formats
\* differ, no step of one changes the other's checkpoint file, and as long as
\* an invocation has not returned its checkpoint holds its own accumulator.
C13_OwnCheckpointOnly ==
    /\ [][\A i \in Tasks, j \in Tasks :
            (i # j /\ DistinctCheckpoints(i, j) /\ tasks'[j] # tasks[j])
              => ReadTemp(temp_files', TaskFile(tasks[i]))
                   = ReadTemp(temp_files, TaskFile(tasks[i]))]_vars
    /\ [](\A i \in Tasks, j \in Tasks :
            ( /\ i # j /\ DistinctCheckpoints(i, j)
              /\ tasks[i].all_reviews # <<>>
              /\ tasks[i].pc # "done" )
              => ReadTemp(temp_files, TaskFile(tasks[i]))
                   = WrittenFile(NoFile, tasks[i].all_reviews, tasks[i].output_format))

\* Two invocations for the same place in different formats: one aborted on
\* its second page and its checkpoint is on disk, the other returned and
\* removed its own.
C13_Witness ==
    /\ tasks[1].feature_id = tasks[2].feature_id
    /\ tasks[1].output_format # tasks[2].output_format
    /\ tasks[1].pc = "failed"
    /\ Len(tasks[1].all_reviews) = 1
    /\ tasks[2].pc = "done"
    /\ Len(tasks[2].all_reviews) = MaxPages
    /\ TaskFile(tasks[1]) \in DOMAIN temp_files
    /\ TaskFile(tasks[2]) \notin DOMAIN temp_files

\* The 15 documented fields of a review record.
FieldNames ==
    {"review_id", "user_name", "user_url", "user_reviews", "rating", "relative_date",
     "text", "text_date", "translated_text", "likes", "response_text",
     "response_relative_date", "response_text_date", "translated_response_text",
     "retrieval_date"}

\* A record with every field at its documented default.
AllDefaults(r) ==
    /\ r.review_id = <<>> /\ r.user_name = <<>> /\ r.user_url = <<>>
    /\ r.user_reviews = 0 /\ r.rating = Float(0, 0) /\ r.relative_date = <<>>
    /\ r.text = <<>> /\ r.text_date = Null /\ r.translated_text = <<>>
    /\ r.likes = 0 /\ r.response_text = <<>> /\ r.response_relative_date = <<>>
    /\ r.response_text_date = Null /\ r.translated_response_text = <<>>

\* extract_review_data was applied to the argument.
Mapped == fn = "extract_review_data" /\ res # Null

\* C14: extract_review_data raises for no input (empty array, non-array,
\* wrong element types, truncated nesting) and returns a record with exactly
\* the 15 documented fields; the fields no position feeds are at their
\* defaults, and so is every field when the input is empty, a number or an
\* object.
C14_NeverRaisesAllFields ==
    Mapped =>
        /\ res.exc = ""
        /\ DOMAIN res.value = FieldNames
        /\ res.value.translated_text = <<>>
        /\ res.value.likes = 0
        /\ res.value.translated_response_text = <<>>
        /\ res.value.retrieval_date = <<" ", Now.d, Now.s>>
        /\ (~Truthy(arg) \/ arg.t \in {"num", "obj"}) => AllDefaults(res.value)

\* An object with two members: the KeyError of review_array[0] is swallowed
\* and the record comes back with every field at its default.
C14_Witness ==
    /\ Mapped
    /\ arg = Obj(2)
    /\ res.exc = ""
    /\ AllDefaults(res.value)

\* The value at a path of 0-based positions, Missing when the path leaves
\* the arrays.
Missing == [t |-> "missing"]

RECURSIVE At(_, _)
At(v, path) ==
    IF path = <<>> THEN v
    ELSE IF v.t = "list" /\ Len(v.xs) > Head(path)
         THEN At(v.xs[Head(path) + 1], Tail(path))
         ELSE Missing

Present(v) == v # Missing /\ Truthy(v)

\* C15: whatever the other positions of a raw review array hold, review_id
\* is taken from index 0 when that is present, user_name from [1][4][5][0],
\* rating from a number at [2][0][0] and text from a string at [2][15][0][0].
C15_FieldsIndependent ==
    (Mapped /\ arg.t = "list") =>
        /\ Present(At(arg, <<0>>))
             => res.value.review_id = Stringify(At(arg, <<0>>))
        /\ Present(At(arg, <<1, 4, 5, 0>>))
             => res.value.user_name = Stringify(At(arg, <<1, 4, 5, 0>>))
        /\ At(arg, <<2, 0, 0>>).t = "num"
             => res.value.rating = Float(At(arg, <<2, 0, 0>>).n, At(arg, <<2, 0, 0>>).e)
        /\ At(arg, <<2, 15, 0, 0>>).t = "str"
             => res.value.text = At(arg, <<2, 15, 0, 0>>).s

\* The raw timestamps that are present and convertible, with their instants
\* (1700000000 s after the epoch is 2023-11-14 22:13:20; 12 microseconds
\* after the epoch is 1970-01-01 00:00:00 in whole seconds).  A zero or empty
\* value counts as absent, as everywhere in the parser.
ConvertibleStamps ==
    { [given |-> Sci(1700000000, 6), instant |-> DateTime(738838, 80000)],
      [given |-> Str(<<"1", "2">>),  instant |-> DateTime(719163, 0)] }

\* The relative dates the resolver resolves, counted back from retrieval_date.
ResolvableDates ==
    { [text    |-> <<"2", " ", "w", "e", "e", "k", "s", " ", "a", "g", "o">>,
       instant |-> DateTime(Now.d - 14, Now.s)],
      [text    |-> <<"a", " ", "d", "a", "y", " ", "a", "g", "o">>,
       instant |-> DateTime(Now.d - 1, Now.s)] }

\* The rule for one date field: the timestamp when it is present and
\* convertible; otherwise unset, or the relative date resolved from
\* retrieval_date when there is a relative date that resolves.
DateRule(stamp, date, relative) ==
    /\ \A c \in ConvertibleStamps :
          stamp = c.given => date = Str(<<"T", c.instant.d, c.instant.s>>)
    /\ (date # Null /\ stamp \notin {c.given : c \in ConvertibleStamps})
          => \E c \in ResolvableDates :
                /\ relative = c.text
                /\ date = Str(<<"T", c.instant.d, c.instant.s>>)

\* C16: the date rule holds for text_date with the timestamp at [1][2] and
\* relative_date, and for response_text_date with the timestamp at [3][1]
\* and response_relative_date.
C16_TimestampFirst ==
    (Mapped /\ arg.t = "list") =>
        /\ DateRule(At(arg, <<1, 2>>), res.value.text_date, res.value.relative_date)
        /\ DateRule(At(arg, <<3, 1>>), res.value.response_text_date,
                    res.value.response_relative_date)

\* C17: for an envelope array, extract_pagination_token returns the second
\* element as a string when there are at least 2 elements and the second is
\* a non-empty string, a non-zero number or a non-empty list, and the empty
\* string otherwise.
C17_TokenOrEmpty ==
    (fn = "extract_pagination_token" /\ res # Null) =>
        LET x == At(arg, <<1>>)
        IN  res = Ok(CASE x = Missing   -> <<>>
                       [] x.t = "null"  -> <<>>
                       [] x.t = "str"   -> x.s
                       [] x.t = "num"   -> IF x.n = 0 THEN <<>> ELSE DigitsOf(x.n)
                       [] x.t = "list"  -> IF x.xs = <<>> THEN <<>> ELSE <<"list">>)

\* A numeric cursor comes back as its digits.
C17_Witness ==
    /\ fn = "extract_pagination_token"
    /\ Len(arg.xs) = 3
    /\ arg.xs[2] = Num(7)
    /\ res = Ok(<<"7">>)

\* The wrappers whose first element is a raw per-review array.
HoldsRawArray(w) == w.t = "list" /\ w.xs # <<>> /\ w.xs[1].t = "list"

\* C18: extract_reviews returns, in order, one record per wrapper of the
\* third element whose first element is a raw per-review array, and nothing
\* for any other wrapper.
C18_OneRecordPerRawArray ==
    (fn = "extract_reviews" /\ res # Null) =>
        /\ res.exc = ""
        /\ LET slot == At(arg, <<2>>)
               raws == IF slot # Missing /\ slot.t = "list"
                       THEN SelectSeq(slot.xs, HoldsRawArray)
                       ELSE <<>>
           IN  res.value = [i \in 1..Len(raws) |-> extract_review_data(raws[i].xs[1])]

\* The instant parse_relative_date is to count back from.
ReferenceOf(given) == (CHOOSE c \in ReferenceCases : c.given = given).instant

\* The quantities written out in the texts, with their values.
ClaimQuantities ==
    { [digits |-> <<"2">>, n |-> 2],
      [digits |-> <<"1", "2">>, n |-> 12],
      [digits |-> <<"3", "0", "0", "0">>, n |-> 3000],
      [digits |-> <<"3", "0", "0", "0", "0", "0", "0">>, n |-> 3000000],
      [digits |-> <<"a">>, n |-> 1],
      [digits |-> <<"a", "n">>, n |-> 1] }

\* "<n> <unit> ago", "<n> <unit>s ago", "a <unit> ago", "an <unit> ago".
Renderings(q, u) ==
    { q.digits \o <<" ">> \o UnitWord(u) \o p \o <<" ">> \o Ago :
        p \in IF q.digits[1] = "a" THEN {<<>>} ELSE {<<>>, <<"s">>} }

\* n units as whole days and remaining seconds: a month is 30 days, a year
\* 365 days.
WholeDays(u, n) ==
    CASE u = "seconds" -> n \div 86400
      [] u = "minutes" -> n \div 1440
      [] u = "hours"   -> n \div 24
      [] u = "days"    -> n
      [] u = "weeks"   -> 7 * n
      [] u = "months"  -> 30 * n
      [] u = "years"   -> 365 * n

RestSeconds(u, n) ==
    CASE u = "seconds" -> n % 86400
      [] u = "minutes" -> 60 * (n % 1440)
      [] u = "hours"   -> 3600 * (n % 24)
      [] OTHER         -> 0

\* ref minus `days` days and `secs` seconds (secs < 86400).
Earlier(ref, days, secs) ==
    IF secs <= ref.s
    THEN DateTime(ref.d - days, ref.s - secs)
    ELSE DateTime(ref.d - days - 1, ref.s - secs + SecondsPerDay)

\* A datetime exists for that instant (0001-01-01 or later) and the span is
\* one a timedelta can hold.
Representable(ref, days, secs) ==
    /\ days <= MaxDeltaDays
    /\ Earlier(ref, days, secs).d >= MinOrdinal

\* The function was applied to this text.
Resolved(text) == fn = "parse_relative_date" /\ res # Null /\ arg.text = text

\* C19 as claimed: every text "<n> <unit> ago" or "a/an <unit> ago" resolves
\* to the reference instant minus exactly n units (a month 30 days, a year
\* 365 days), whatever n; "just now", "now" and "today" resolve to the
\* reference instant and "yesterday" to one day before it.
C19_ExactOffsetAlways ==
    /\ \A q \in ClaimQuantities, k \in 1..Len(Units) :
          \A text \in Renderings(q, Units[k]) :
             Resolved(text) =>
                res = Ok(Earlier(ReferenceOf(arg.reference),
                                 WholeDays(Units[k], q.n), RestSeconds(Units[k], q.n)))
    /\ \A text \in {JustNow, NowWord, Today} :
          Resolved(text) => res = Ok(ReferenceOf(arg.reference))
    /\ Resolved(Yesterday) => res = Ok(Earlier(ReferenceOf(arg.reference), 1, 0))

\* C19 amended: the same, for the quantities whose offset from the reference
\* instant is an instant a datetime can hold.
C19_ExactOffsetInRange ==
    /\ \A q \in ClaimQuantities, k \in 1..Len(Units) :
          \A text \in Renderings(q, Units[k]) :
             ( /\ Resolved(text)
               /\ Representable(ReferenceOf(arg.reference),
                                WholeDays(Units[k], q.n), RestSeconds(Units[k], q.n)) )
               => res = Ok(Earlier(ReferenceOf(arg.reference),
                                   WholeDays(Units[k], q.n), RestSeconds(Units[k], q.n)))
    /\ \A text \in {JustNow, NowWord, Today} :
          Resolved(text) => res = Ok(ReferenceOf(arg.reference))
    /\ Resolved(Yesterday) => res = Ok(Earlier(ReferenceOf(arg.reference), 1, 0))

\* "12 months ago" counted back from a given reference: 360 days earlier.
C19_Witness ==
    /\ Resolved(<<"1", "2", " ">> \o UnitWord("months") \o <<"s", " ">> \o Ago)
    /\ arg.reference = Str(<<" ", 738000, 100>>)
    /\ res = Ok(DateTime(738000 - 360, 100))

\* The text, lowered and stripped, is one parse_relative_date has a pattern
\* for: one of the fixed words, or it holds "yesterday", a counted unit or
\* an article with a unit.
Supported(text) ==
    LET s == Strip(Lower(text))
    IN  \/ s \in {JustNow, NowWord, Today}
        \/ Contains(s, Yesterday)
        \/ \E k \in 1..Len(Units), i \in 1..Len(s) :
              \/ CountedMatch(s, i, UnitWord(Units[k]))
              \/ SingleMatch(s, i, UnitWord(Units[k]))

\* C20: parse_relative_date never raises, whatever the text and however
\* large the quantity, and returns None for an empty text and for a text no
\* pattern matches.
C20_NeverRaises ==
    (fn = "parse_relative_date" /\ res # Null)
        => /\ res.exc = ""
           /\ ~Supported(arg.text) => res = Ok(Null)

\* C21: after a successful invocation with an output path, in either
\* format and for every result size including zero, the file at the output
\* path holds exactly the returned records.
C21_OutputHoldsResult ==
    (pc = "done" /\ output_file # <<>>) => output = Serialised(final_reviews)

\* C22: a second call of _save_to_temp with the same accumulator, path and
\* format leaves the checkpoint file with the content the first call left.
C22_CheckpointIdempotent ==
    [][(fn = "_save_to_temp" /\ res # Null) => res'.file = res.file]_vars

\* Two records were written twice over an earlier csv checkpoint of another
\* scrape: the file holds the two records, once.
C22_Witness ==
    /\ fn = "_save_to_temp"
    /\ res # Null
    /\ res.calls = 2
    /\ arg.output_format = "csv"
    /\ arg.file.rows # <<>>
    /\ Len(arg.reviews) = 2
    /\ res.file = [kind |-> "csv",
                   rows |-> [i \in 1..2 |-> [c \in CsvColumns |-> arg.reviews[i][c]]]]

\* The step in which a page request raises (network error, non-200 status).
TransportFailure ==
    /\ pc = "awaiting"
    /\ pc' \in {"retry_wait", "failed"}
    /\ last_attempt' = "error"

\* C23: a page attempt that fails in transport takes one attempt off the
\* retry budget and leaves the cursor, the accumulator, the page counter and
\* the checkpoint files as they were (the output file too, unless the
\* invocation aborts); the retry that follows carries the cursor of the
\* failed attempt.
C23_TransportFailureFrame ==
    /\ [][TransportFailure
            => /\ retries' = retries - 1
               /\ next_page_token' = next_page_token
               /\ all_reviews' = all_reviews
               /\ page' = page
               /\ temp_files' = temp_files
               /\ tmp_dir' = tmp_dir
               /\ pc' = "retry_wait" => output' = output]_vars
    /\ [][(pc = "attempt" /\ pc' = "awaiting" /\ last_attempt = "error")
            => requests'[Len(requests')] = requests[Len(requests)]]_vars

\* The request for page 2 failed and is repeated with the cursor of page 1,
\* the accumulator and the checkpoint still holding page 1.
C23_Witness ==
    /\ pc = "awaiting"
    /\ last_attempt = "error"
    /\ requests = << <<>>, TokenOf(1), TokenOf(1) >>
    /\ next_page_token = TokenOf(1)
    /\ fetched = <<1>>
    /\ retries = n_retries - 1
    /\ all_reviews # <<>>
    /\ ReadTemp(temp_files, temp_file) = Serialised(all_reviews)

\* C24: the retry budget is per page: every page starts with the full
\* configured count, and during a page the budget left is that count less
\* the failed attempts of this page, whatever earlier pages spent.
C24_BudgetPerPage ==
    /\ [][(pc = "page" /\ pc' = "attempt") => retries' = n_retries]_vars
    /\ [](pc \in {"attempt", "awaiting", "retry_wait"} => retries = n_retries - fails)

\* Page 1 took two failed attempts; page 2 starts with the full budget of 3.
C24_Witness ==
    /\ pc = "attempt"
    /\ page = 1
    /\ n_retries = 3
    /\ faults = 2
    /\ fails = 0
    /\ fetched = <<1>>
    /\ retries = 3

\* The pages whose records the accumulator holds.
PagesHeld == {all_reviews[i].review_id[1] : i \in 1..Len(all_reviews)}

\* C25: after a checkpoint write has failed, the retry does not ask again for
\* a page whose records are in the accumulator, and the accumulator never
\* holds a record twice, also when the page decoded before the failed write
\* was the last one.
C25_NoRefetchAfterDiskFailure ==
    disk_failed =>
        /\ (pc = "awaiting" /\ last_attempt = "disk")
             => PageOfToken(requests[Len(requests)]) \notin PagesHeld
        /\ \A i, j \in 1..Len(all_reviews) :
             all_reviews[i].review_id = all_reviews[j].review_id => i = j

\* C26: whatever the endpoint answers, as long as it answers every request,
\* the invocation eventually returns or raises.
C26_Terminates == <>(pc \in {"done", "failed"})

\* C27: a page request is issued only from the head of the retry loop; the
\* head is reached from a retry wait, from the start of the call or, through
\* the start of the next page, from an inter-request delay, so exactly one
\* wait (pc = "retry_wait", line 321, or pc = "delay", line 342) lies between
\* two consecutive requests.  The retry wait follows a failed attempt and
\* the delay an answered request.  An abort follows the
\* failing attempt at once, and from the termination checks to the return
\* there is no wait.
C27_OneWaitBetweenRequests ==
    /\ [][requests' # requests /\ requests' # <<>> => pc = "attempt" /\ pc' = "awaiting"]_vars
    /\ [][pc' = "attempt" /\ pc # "attempt"
            => \/ pc = "retry_wait"
               \/ pc = "page"]_vars
    /\ [][pc' = "page" => \/ pc = "idle" /\ requests' = <<>>
                          \/ pc = "delay"]_vars
    /\ [][pc' = "retry_wait" => pc = "awaiting"]_vars
    /\ [][pc' = "delay" => pc = "check"]_vars
    /\ [](pc = "retry_wait" => last_attempt \in {"error", "disk"})
    /\ [](pc = "delay" => last_attempt \in {"page", "short"})
    /\ [][pc' = "failed" /\ error' = "retries" => pc = "awaiting"]_vars
    /\ [][pc' = "finalize" => pc = "check"]_vars
    /\ [][pc' = "cleanup" => pc = "finalize"]_vars
    /\ [][pc' = "done" => pc = "cleanup"]_vars

\* The first request failed and was repeated after the retry wait; page 1
\* came, and after the delay the request for page 2 is out.
C27_Witness ==
    /\ pc = "awaiting"
    /\ requests = << <<>>, <<>>, TokenOf(1) >>
    /\ fetched = <<1>>
    /\ faults = 1
    /\ last_attempt = "page"
    /\ page = 1

C29_TargetBounds ==
    /\ []((pc = "done" /\ n_reviews # None) => Len(final_reviews) <= n_reviews)
    /\ [][( /\ n_reviews # None
            /\ last_attempt = "page"
            /\ Len(all_reviews) >= n_reviews )
            => requests' = requests]_vars

\* The list the emulator was configured with: the one given, or the default
\* one when none or an empty one was given.
Configured ==
    IF arg = Null \/ arg.xs = <<>> THEN IMPERSONATIONS ELSE arg.xs

\* C30: the k-th get_next since the index was last 0 returns entry
\* ((k - 1) mod n) + 1 of the n configured impersonations, so the entries
\* come in list order and start over after the last; the index always lies
\* in 0..n-1; reset leaves it at 0, from where get_next returns the first
\* entry; get_random returns an entry of the list and leaves the index alone.
C30_RotationInOrder ==
    /\ [](fn \in {"__init__", "get_next", "get_random", "reset"}
            => /\ res.impersonations = Configured
               /\ res._index \in 0..(Len(Configured) - 1)
               /\ res._index = res.since % Len(Configured)
               /\ fn = "get_next"
                    => res.returned = Configured[((res.since - 1) % Len(Configured)) + 1]
               /\ fn = "reset" => res._index = 0
               /\ fn = "get_random"
                    => \E i \in 1..Len(Configured) : res.returned = Configured[i])
    /\ [][fn' = "get_random" => res'._index = res._index]_vars
    /\ [][(fn = "reset" /\ fn' = "get_next") => res'.returned = Configured[1]]_vars

\* Four get_next calls on a list of three entries: the fourth returned the
\* first entry again and the index stands at 1.
C30_Witness ==
    /\ fn = "get_next"
    /\ arg = List(<<"chrome99", "edge99", "edge99">>)
    /\ res.since = 4
    /\ res.returned = "chrome99"
    /\ res._index = 1

====
